---- MODULE Spec2Model ----
(***************************************************************************)
(* Model of the worktree cleanup command of the "work" CLI                 *)
(* (cmd/cleanup.go) and of the git command runner it drives                *)
(* (pkg/gitexec).                                                          *)
(*                                                                         *)
(* A repository container is a number r; its name (filepath.Base of its    *)
(* path) is the same number.  A worktree path is [repo |-> r, name |-> k]; *)
(* name MAIN is the canonical checkout, names 1.. are secondary worktrees, *)
(* and the branch a worktree tracks carries the worktree's name.           *)
(***************************************************************************)
EXTENDS Integers, Sequences, FiniteSets, TLC

\* ------------------------------------------------------------------ bounds
NumRepos == 2
MaxWt == 2
NumKeys == 2
MaxTime == 3
MaxTTL == 2
\* stands for the 100 of the source
MaxRecentRepos == 2

\* ------------------------------------------------------------- vocabulary
MAIN == 0
NoFilter == 0
Repos == 1 .. NumRepos
\* repository 1 holds MaxWt secondary worktrees, every other repository one
NumWt(r) == IF r = 1 THEN MaxWt ELSE 1
WtIds == { p \in [repo : Repos, name : 1 .. MaxWt] : p.name <= NumWt(p.repo) }
Base(repoPath) == repoPath
SizeOf(path) == path.repo + path.name

RECURSIVE SeqSum(_)
SeqSum(s) == IF s = <<>> THEN 0 ELSE Head(s) + SeqSum(Tail(s))

\* ------------------------------------------------ pkg/gitexec: the runner
\* What cmd.Run() did with the subprocess: it exited 0, exited non-zero,
\* was killed by the context deadline, or could not be started at all
\* (missing binary, unusable working directory, fork failure).
Proc(kind, stdout) == [kind |-> kind, out |-> stdout]

\* the subprocess outcomes that produce no usable output
FailedProcs == { Proc(k, <<>>) : k \in {"exitN", "killed", "nostart"} }

\* err.(*exec.ExitError): only a process that ran and ended unsuccessfully
IsExitError(proc) == proc.kind \in {"exitN", "killed"}

ExitCodeOf(proc) == IF proc.kind = "killed" THEN -1 ELSE 1

\* Runner.Run: exitCode stays 0 unless the error is an *exec.ExitError, and
\* an error is returned only when err != nil && exitCode != 0.
Run(proc) ==
    LET cmdErr == proc.kind # "exit0"
        exitCode == IF cmdErr /\ IsExitError(proc) THEN ExitCodeOf(proc) ELSE 0
    IN  [Stdout |-> proc.out, ExitCode |-> exitCode, err |-> cmdErr /\ exitCode # 0]

\* Runner.RunSimple: stdout only, "" on error
RunSimple(proc) ==
    LET result == Run(proc)
    IN  IF result.err THEN [out |-> <<>>, err |-> TRUE]
        ELSE [out |-> result.Stdout, err |-> FALSE]

\* Runner.GetGitStatus: the non-blank porcelain lines
GetGitStatus(proc) ==
    LET r == RunSimple(proc)
    IN  IF r.err THEN [status |-> <<>>, err |-> TRUE]
        ELSE IF r.out = <<>> THEN [status |-> <<>>, err |-> FALSE]
        ELSE [status |-> SelectSeq(r.out, LAMBDA line : line # ""), err |-> FALSE]

\* Runner.IsBranchMerged: a line of `git branch --merged <base>` is
\* [mark, name]; the "*" mark and blanks are trimmed, any other mark stays
\* part of the compared text.
IsBranchMerged(proc, branchName) ==
    LET r == RunSimple(proc)
    IN  IF r.err THEN [val |-> FALSE, err |-> TRUE]
        ELSE [val |-> \E n \in 1 .. Len(r.out) :
                          r.out[n].mark \in {" ", "*"} /\ r.out[n].name = branchName,
              err |-> FALSE]

\* Runner.RemoteBranchExists: a line of `git branch -r` is [remote, name]
RemoteBranchExists(proc, branchName) ==
    LET r == RunSimple(proc)
    IN  IF r.err THEN [val |-> FALSE, err |-> TRUE]
        ELSE [val |-> \E n \in 1 .. Len(r.out) :
                          r.out[n].remote = "origin" /\ r.out[n].name = branchName,
              err |-> FALSE]

\* Runner.ListWorktrees: the porcelain listing, one Worktree per block
ListWorktrees(proc) ==
    LET r == RunSimple(proc)
    IN  IF r.err THEN [worktrees |-> <<>>, err |-> TRUE]
        ELSE [worktrees |-> [n \in 1 .. Len(r.out) |->
                                [Path |-> r.out[n].path, Branch |-> r.out[n].branch]],
              err |-> FALSE]

\* Runner.GetDefaultBranch: gh repo view; any failure or empty answer is an error
GetDefaultBranch(proc) ==
    IF proc.kind # "exit0" \/ proc.out = <<>> THEN [branch |-> "", err |-> TRUE]
    ELSE [branch |-> proc.out[1], err |-> FALSE]

\* Runner.RemoveWorktree / Runner.PruneWorktrees: only the error is kept
RemoveWorktree(proc) == RunSimple(proc).err

PruneWorktrees(proc) == RunSimple(proc).err

\* ------------------------------------------------ cmd/cleanup.go: records
WorktreeInfo(repoName, repoPath, path, branch, defaultBranch) ==
    [RepoName |-> repoName, RepoPath |-> repoPath, Path |-> path, Branch |-> branch,
     IsMerged |-> FALSE, IsDeleted |-> FALSE, HasChanges |-> FALSE, Reason |-> "",
     SizeBytes |-> SizeOf(path), DefaultBranch |-> defaultBranch]

\* variants of IsStale: without the changes veto, without the deleted case
IsStaleIgnoringChanges(w) == w.IsMerged \/ w.IsDeleted

IsStaleMergedOnly(w) == ~w.HasChanges /\ w.IsMerged

\* WorktreeInfo.IsStale
IsStale(w) == ~w.HasChanges /\ (w.IsMerged \/ w.IsDeleted)

\* the variant of StatusString that looks at IsMerged first
StatusStringMergedFirst(w) ==
    IF w.IsMerged THEN "[merged]"
    ELSE IF w.HasChanges THEN "[changes]"
    ELSE IF w.IsDeleted THEN "[deleted]"
    ELSE "[active]"

\* WorktreeInfo.StatusString
StatusString(w) ==
    IF w.HasChanges THEN "[changes]"
    ELSE IF w.IsMerged THEN "[merged]"
    ELSE IF w.IsDeleted THEN "[deleted]"
    ELSE "[active]"

\* fmt.Sprintf("Merged to %s", defaultBranch) over the branch names in use
MergedReason(defaultBranch) ==
    IF defaultBranch = "main" THEN "Merged to main" ELSE "Merged to master"

\* ------------------------------------ the git subprocesses (environment)
\* `git status --porcelain` in a worktree whose directory is in state s
StatusProcs(s) ==
    IF s = "gone" THEN {Proc("nostart", <<>>)}
    ELSE FailedProcs \cup {Proc("exit0", IF s = "dirty" THEN <<"?? file">> ELSE <<>>)}

\* `git branch --merged <base>`: the branch is absent, listed plainly, or
\* listed with the "+" mark git puts on a branch checked out in a linked
\* worktree
MergedProcs(branch) ==
    FailedProcs \cup
    { Proc("exit0", stdout) : stdout \in { <<>>, <<[mark |-> " ", name |-> branch]>>,
                                     <<[mark |-> "+", name |-> branch]>> } }

\* `git branch -r`: origin/<branch> is listed or not
RemoteProcs(branch) ==
    FailedProcs \cup
    { Proc("exit0", stdout) : stdout \in { <<>>, <<[remote |-> "origin", name |-> branch]>> } }

\* `gh repo view`: the default branch name, an empty answer, or a failure
DefaultProcs(names) ==
    FailedProcs \cup { Proc("exit0", stdout) : stdout \in {<<>>} \cup { <<b>> : b \in names } }

\* `git worktree list --porcelain` in the canonical checkout of r
Listing(r) ==
    [n \in 1 .. NumWt(r) + 1 |->
        [path |-> [repo |-> r, name |-> n - 1], branch |-> n - 1]]

ListProcs(r) == FailedProcs \cup {Proc("exit0", Listing(r))}

\* the variant of Runner.RemoveWorktree that would pass --force
RemoveUsesForceMut == TRUE

\* Runner.RemoveWorktree passes no --force
RemoveUsesForce == FALSE

\* `git worktree remove <path>` (force: with --force) on a directory in
\* state s: git refuses an unclean worktree unless forced.  The new state.
GitWorktreeRemove(s, proc, force) ==
    IF proc.kind = "exit0" /\ s # "gone" /\ (s = "clean" \/ force) THEN "gone" ELSE s

RemoveProcs(s, force) ==
    IF s = "clean" \/ (s = "dirty" /\ force) THEN FailedProcs \cup {Proc("exit0", <<>>)}
    ELSE FailedProcs

PruneProcs == FailedProcs \cup {Proc("exit0", <<>>)}

\* ------------------------------------------- scanWorktrees, one iteration
\* Each stage takes and returns x = [info, calls]: the record under
\* construction and the runner calls made for it so far.

\* the variant that lets a status error pass as "no changes"
StatusStageFailOpen(x, sProc) ==
    LET st == GetGitStatus(sProc)
    IN  [info |-> IF ~st.err /\ Len(st.status) > 0
                    THEN [x.info EXCEPT !.HasChanges = TRUE,
                                        !.Reason = "Has uncommitted changes"]
                  ELSE x.info,
         calls |-> Append(x.calls, "GetGitStatus")]

\* "Check for uncommitted changes": an error counts as changes
StatusStage(x, sProc) ==
    LET st == GetGitStatus(sProc)
    IN  [info |-> IF st.err
                    THEN [x.info EXCEPT !.HasChanges = TRUE,
                                        !.Reason = "Error checking status"]
                  ELSE IF Len(st.status) > 0
                    THEN [x.info EXCEPT !.HasChanges = TRUE,
                                        !.Reason = "Has uncommitted changes"]
                  ELSE x.info,
         calls |-> Append(x.calls, "GetGitStatus")]

\* the variant that probes the merge state whatever HasChanges says
MergedStageUnguarded(x, mProc) ==
    LET mg == IsBranchMerged(mProc, x.info.Branch)
    IN  [info |-> IF ~mg.err /\ mg.val
                    THEN [x.info EXCEPT !.IsMerged = TRUE,
                                        !.Reason = MergedReason(x.info.DefaultBranch)]
                  ELSE x.info,
         calls |-> Append(x.calls, "IsBranchMerged")]

\* "Check if merged", inside `if !info.HasChanges`
MergedStage(x, mProc) ==
    IF x.info.HasChanges THEN x
    ELSE LET mg == IsBranchMerged(mProc, x.info.Branch)
         IN  [info |-> IF ~mg.err /\ mg.val
                         THEN [x.info EXCEPT !.IsMerged = TRUE,
                                             !.Reason = MergedReason(x.info.DefaultBranch)]
                       ELSE x.info,
              calls |-> Append(x.calls, "IsBranchMerged")]

\* the variant that probes the remote whatever IsMerged says
RemoteStageAfterMerged(x, rProc) ==
    IF x.info.HasChanges THEN x
    ELSE LET rb == RemoteBranchExists(rProc, x.info.Branch)
         IN  [info |-> IF ~rb.err /\ ~rb.val
                         THEN [x.info EXCEPT !.IsDeleted = TRUE,
                                             !.Reason = "Remote branch deleted"]
                       ELSE x.info,
              calls |-> Append(x.calls, "RemoteBranchExists")]

\* "Check if remote branch exists", inside `if !info.HasChanges` and
\* `if !info.IsMerged`
RemoteStage(x, rProc) ==
    IF x.info.HasChanges \/ x.info.IsMerged THEN x
    ELSE LET rb == RemoteBranchExists(rProc, x.info.Branch)
         IN  [info |-> IF ~rb.err /\ ~rb.val
                         THEN [x.info EXCEPT !.IsDeleted = TRUE,
                                             !.Reason = "Remote branch deleted"]
                       ELSE x.info,
              calls |-> Append(x.calls, "RemoteBranchExists")]

\* The body of the loop of scanWorktrees for one listed worktree wt that is
\* not the canonical checkout: the record, and the runner calls made.
scanOne(repoPath, repoName, wt, defaultBranch, sProc, mProc, rProc) ==
    RemoteStage(
        MergedStage(
            StatusStage([info |-> WorktreeInfo(repoName, repoPath, wt.Path, wt.Branch,
                                               defaultBranch),
                         calls |-> <<>>], sProc),
            mProc),
        rProc)

\* ------------------------------------------------------ discoverRepos
\* The configured root: the setting is empty, the directory is missing or
\* unreadable, it holds nothing, or it holds the repository containers
\* followed by a plain file and a directory without main/.git.
RootStates == {"unset", "missing", "unreadable", "empty", "ok"}

\* a Go slice: `var repos []string` stays nil until the first append
Slice(paths) == [isNil |-> paths = <<>>, paths |-> paths]

\* the variant that falls back to a default root holding repository 1
NilReposFallback == [isNil |-> FALSE, paths |-> <<1>>]

\* `return nil` of discoverRepos
NilRepos == [isNil |-> TRUE, paths |-> <<>>]

RootEntries(rootState) ==
    IF rootState # "ok" THEN <<>>
    ELSE [n \in 1 .. NumRepos + 2 |->
            [name |-> n, isDir |-> n # NumRepos + 1, hasMainGit |-> n <= NumRepos]]

\* the variant of the loop that does not look at entry.IsDir()
AcceptEntriesAnyKind(entries) ==
    LET accepted == SelectSeq(entries, LAMBDA e : e.hasMainGit)
    IN  Slice([n \in 1 .. Len(accepted) |-> accepted[n].name])

\* `for _, entry := range entries`: a directory whose main/.git can be
\* stat'ed is appended, anything else is passed over
AcceptEntries(entries) ==
    LET accepted == SelectSeq(entries, LAMBDA e : e.isDir /\ e.hasMainGit)
    IN  Slice([n \in 1 .. Len(accepted) |-> accepted[n].name])

discoverRepos(rootState) ==
    IF rootState \in {"unset", "missing", "unreadable"} THEN NilRepos
    ELSE AcceptEntries(RootEntries(rootState))

\* --------------------------------------------------------------- state
VARIABLES
    mode,           \* the sub-command: "list", "scan" or "run"
    cleanupForce,   \* --force
    repoFilter,     \* args[0], NoFilter when absent
    root,           \* state of the configured root directory
    fs,             \* per secondary worktree: its directory is on disk
    pc,             \* position of the command's main routine
    repos,          \* result of discoverRepos
    i,              \* index of the spawning loop
    task,           \* per repository: the scan goroutine's position and locals
    wg,             \* the WaitGroup counter
    results,        \* the buffered results channel
    closed,         \* the results channel is closed
    closer,         \* position of the closing goroutine
    tally,          \* list: totalWorktrees, staleWorktrees, hasResults
    out,            \* list: the repository sections printed to stdout
    errs,           \* the repositories reported on stderr as scan errors
    allStale,       \* scan, run: the stale records collected
    totalSize,      \* scan, run
    idx,            \* run: index into allStale of the removal loop
    run,            \* run: removed, skipped, freedSpace
    err,            \* run: what the removeWorktreeSafely call of this iteration returned
    recheckOn,      \* run: what the directory held when this iteration re-checked it
    issuedOn,       \* run: what it held when this iteration issued its removal
    statusQuery,    \* run: what the status query of this iteration's call returned
    processedRepos, \* run: the prune loop's map
    pruned,         \* run: the PruneWorktrees calls made, in order
    started,        \* per repository: scan goroutines started
    received,       \* per repository: results taken from the channel
    calls,          \* per candidate: removeWorktreeSafely invocations
    decided,        \* per candidate: decisions taken
    arg,            \* input of the function under study
    ret             \* its result

inputVars == <<mode, cleanupForce, repoFilter, root>>
fanVars == <<repos, i, task, wg, results, closed, closer, started, received>>
collectVars == <<tally, out, errs, allStale, totalSize>>
runVars == <<idx, run, err, recheckOn, issuedOn, statusQuery, processedRepos, pruned, calls,
             decided>>
fnVars == <<arg, ret>>
vars == <<inputVars, fs, pc, fanVars, collectVars, runVars, fnVars>>

Modes == {"list", "scan", "run"}

IdleTask == [pc |-> "idle", result |-> <<>>, err |-> FALSE]

\* no status query made yet in this iteration
NoQuery == [made |-> FALSE, status |-> <<>>, err |-> FALSE]

\* the state of the command before it runs
CmdInit ==
    /\ pc = "start"
    /\ repos = NilRepos /\ i = 0
    /\ task = [r \in Repos |-> IdleTask]
    /\ wg = 0 /\ results = <<>> /\ closed = FALSE /\ closer = "none"
    /\ tally = [totalWorktrees |-> 0, staleWorktrees |-> 0, hasResults |-> FALSE]
    /\ out = <<>> /\ errs = <<>> /\ allStale = <<>> /\ totalSize = 0
    /\ idx = 0
    /\ run = [removed |-> 0, skipped |-> 0, freedSpace |-> 0]
    /\ err = "none" /\ recheckOn = "none" /\ issuedOn = "none" /\ statusQuery = NoQuery
    /\ processedRepos = {} /\ pruned = <<>>
    /\ started = [r \in Repos |-> 0] /\ received = [r \in Repos |-> 0]
    /\ calls = <<>> /\ decided = <<>>

Init ==
    /\ mode \in Modes
    /\ cleanupForce \in (IF mode = "run" THEN BOOLEAN ELSE {FALSE})
    /\ repoFilter \in {NoFilter} \cup {1, NumRepos + 1}
    /\ root \in RootStates
    /\ fs = [w \in WtIds |-> TRUE]
    /\ CmdInit
    /\ arg = 0 /\ ret = 0

\* ------------------------------------------- runCleanupList/Scan/Run
\* discoverRepos and the two early returns
Discover ==
    /\ pc = "start"
    /\ repos' = discoverRepos(root)
    /\ IF repos'.isNil THEN pc' = "done" /\ i' = i
       ELSE IF Len(repos'.paths) = 0 THEN pc' = "done" /\ i' = i
       ELSE pc' = "spawn" /\ i' = 1
    /\ UNCHANGED <<inputVars, fs, task, wg, results, closed, closer, started, received,
                   collectVars, runVars, fnVars>>

\* the name filter of the spawning loop
PassesFilter(repoName) == ~(repoFilter # NoFilter /\ repoName # repoFilter)

\* one iteration of `for _, repoPath := range repos`: wg.Add(1) and go func
Spawn ==
    /\ pc = "spawn" /\ i <= Len(repos.paths)
    /\ LET repoPath == repos.paths[i]
       IN  IF PassesFilter(Base(repoPath))
           THEN /\ wg' = wg + 1
                /\ task' = [task EXCEPT ![repoPath].pc = "scan"]
                /\ started' = [started EXCEPT ![repoPath] = @ + 1]
           ELSE UNCHANGED <<wg, task, started>>
    /\ i' = i + 1
    /\ UNCHANGED <<inputVars, fs, pc, repos, results, closed, closer, received,
                   collectVars, runVars, fnVars>>

\* the loop is over: start the closing goroutine and enter the collector
SpawnDone ==
    /\ pc = "spawn" /\ i > Len(repos.paths)
    /\ closer' = "wait"
    /\ pc' = "collect"
    /\ UNCHANGED <<inputVars, fs, repos, i, task, wg, results, closed, started, received,
                   collectVars, runVars, fnVars>>

\* What a directory can hold at the instant a command looks at it: the
\* user edits worktrees at any time, so a directory that is on disk is
\* clean or dirty at each look, whatever it was at the look before.
Contents(present) == IF present THEN {"clean", "dirty"} ELSE {"gone"}

\* the records scanWorktrees can build for one listed worktree, over what
\* its directory holds and every outcome of its three git commands
InfoSet(r, wt, defaultBranch, present) ==
    { scanOne(r, Base(r), wt, defaultBranch, sProc, mProc, rProc).info :
        sProc \in UNION { StatusProcs(s) : s \in Contents(present) },
        mProc \in MergedProcs(wt.Branch), rProc \in RemoteProcs(wt.Branch) }

\* the loop of scanWorktrees over the listed worktrees wts: the canonical
\* checkout is skipped, every other worktree adds one record in listing
\* order; the result slices it can build
\* the variant that takes no worktree for the canonical checkout
IsMainWorktreeNever(wt) == FALSE

\* filepath.Base(wt.Path) == "main"
IsMainWorktree(wt) == wt.Path.name = MAIN

\* the directory of a listed worktree is on disk: the canonical checkout,
\* from which the listing was made, always is
OnDisk(dirs, path) == IF path.name = MAIN THEN TRUE ELSE dirs[path]

RECURSIVE ScanLoop(_, _, _, _)
ScanLoop(r, wts, defaultBranch, dirs) ==
    IF wts = <<>> THEN {<<>>}
    ELSE LET wt == Head(wts)
             rest == ScanLoop(r, Tail(wts), defaultBranch, dirs)
         IN  IF IsMainWorktree(wt) THEN rest
             ELSE { <<info>> \o t :
                      info \in InfoSet(r, wt, defaultBranch, OnDisk(dirs, wt.Path)),
                      t \in rest }

\* scanWorktrees: default branch (fallback "main"), fetch --prune (a
\* failure only warns), worktree list (a failure is the repository's
\* error), then the loop.  The (worktrees, err) pairs it can return when
\* dirs tells which worktree directories are on disk.
scanWorktrees(r, dirs) ==
    UNION { LET db == GetDefaultBranch(dProc)
                defaultBranch == IF db.err THEN "main" ELSE db.branch
                lw == ListWorktrees(lProc)
            IN  IF lw.err THEN {[worktrees |-> <<>>, err |-> TRUE]}
                ELSE { [worktrees |-> res, err |-> FALSE] :
                         res \in ScanLoop(r, lw.worktrees, defaultBranch, dirs) } :
            dProc \in DefaultProcs({"main"}), lProc \in ListProcs(r) }

\* scanWorktrees for every repository and every state of the directories
ScanOutcomes ==
    { [repo |-> r, dirs |-> dirs, returns |-> scanWorktrees(r, dirs)] :
        r \in Repos, dirs \in [WtIds -> BOOLEAN] }

\* worktrees, err := scanWorktrees(ctx, rPath, rName) in the goroutine
TaskScan(r) ==
    /\ task[r].pc = "scan"
    /\ \E o \in ScanOutcomes :
        /\ o.repo = r /\ o.dirs = fs
        /\ \E res \in o.returns :
            task' = [task EXCEPT ![r] = [pc |-> "send", result |-> res.worktrees,
                                         err |-> res.err]]
    /\ UNCHANGED <<inputVars, fs, pc, repos, i, wg, results, closed, closer, started,
                   received, collectVars, runVars, fnVars>>

\* the variant that makes a channel with room for one result
CapacityOne(n) == 1

\* make(chan repoResult, len(repos))
Capacity(n) == n

\* results <- repoResult{...}: a send goes through when the channel has room
TaskSend(r) ==
    /\ task[r].pc = "send"
    /\ ~closed
    /\ Len(results) < Capacity(Len(repos.paths))
    /\ results' = Append(results, [repoName |-> Base(r), worktrees |-> task[r].result,
                                   err |-> task[r].err])
    /\ task' = [task EXCEPT ![r].pc = "sent"]
    /\ UNCHANGED <<inputVars, fs, pc, repos, i, wg, closed, closer, started, received,
                   collectVars, runVars, fnVars>>

\* defer wg.Done()
TaskDone(r) ==
    /\ task[r].pc = "sent"
    /\ wg' = wg - 1
    /\ task' = [task EXCEPT ![r].pc = "done"]
    /\ UNCHANGED <<inputVars, fs, pc, repos, i, results, closed, closer, started, received,
                   collectVars, runVars, fnVars>>

\* the variant that closes the channel without waiting for the group
CloserMayCloseMut == TRUE

\* wg.Wait() returns
CloserMayClose == wg = 0

\* go func() { wg.Wait(); close(results) }()
CloserClose ==
    /\ closer = "wait"
    /\ CloserMayClose
    /\ closed' = TRUE
    /\ closer' = "done"
    /\ UNCHANGED <<inputVars, fs, pc, repos, i, task, wg, results, started, received,
                   collectVars, runVars, fnVars>>

\* the variant that returns from the command on the first failed scan
OnScanErrorReturn == "done"

\* `if result.err != nil { ...; continue }`: a failed scan is reported and
\* the range loop goes on with the next result
OnScanError == "collect"

\* the body of `for result := range results` in runCleanupList
CollectList ==
    /\ pc = "collect" /\ mode = "list" /\ results # <<>>
    /\ LET result == Head(results)
           lines == [n \in 1 .. Len(result.worktrees) |->
                        [branchDisplay |-> result.worktrees[n].Path.name,
                         status |-> StatusString(result.worktrees[n]),
                         reason |-> result.worktrees[n].Reason]]
       IN  /\ results' = Tail(results)
           /\ received' = [received EXCEPT ![result.repoName] = @ + 1]
           /\ pc' = IF result.err THEN OnScanError ELSE "collect"
           /\ IF result.err
              THEN errs' = Append(errs, result.repoName) /\ UNCHANGED <<tally, out>>
              ELSE IF Len(result.worktrees) = 0
              THEN UNCHANGED <<tally, out, errs>>
              ELSE /\ tally' = [totalWorktrees |-> tally.totalWorktrees + Len(result.worktrees),
                                staleWorktrees |-> tally.staleWorktrees
                                    + Len(SelectSeq(result.worktrees, IsStale)),
                                hasResults |-> TRUE]
                   /\ out' = Append(out, [repoName |-> result.repoName, lines |-> lines])
                   /\ errs' = errs
    /\ UNCHANGED <<inputVars, fs, repos, i, task, wg, closed, closer, started,
                   allStale, totalSize, runVars, fnVars>>

\* the body of `for result := range results` in runCleanupScan
CollectScan ==
    /\ pc = "collect" /\ mode = "scan" /\ results # <<>>
    /\ LET result == Head(results)
           stale == SelectSeq(result.worktrees, IsStale)
       IN  /\ results' = Tail(results)
           /\ received' = [received EXCEPT ![result.repoName] = @ + 1]
           /\ pc' = IF result.err THEN OnScanError ELSE "collect"
           /\ IF result.err
              THEN errs' = Append(errs, result.repoName) /\ UNCHANGED <<allStale, totalSize>>
              ELSE /\ allStale' = allStale \o stale
                   /\ totalSize' = totalSize
                        + SeqSum([n \in 1 .. Len(stale) |-> stale[n].SizeBytes])
                   /\ errs' = errs
    /\ UNCHANGED <<inputVars, fs, repos, i, task, wg, closed, closer, started,
                   tally, out, runVars, fnVars>>

\* the body of `for result := range results` in runCleanupRun
CollectRun ==
    /\ pc = "collect" /\ mode = "run" /\ results # <<>>
    /\ LET result == Head(results)
           stale == SelectSeq(result.worktrees, IsStale)
       IN  /\ results' = Tail(results)
           /\ received' = [received EXCEPT ![result.repoName] = @ + 1]
           /\ pc' = IF result.err THEN OnScanError ELSE "collect"
           /\ IF result.err
              THEN errs' = Append(errs, result.repoName) /\ UNCHANGED <<allStale, totalSize>>
              ELSE /\ allStale' = allStale \o stale
                   /\ totalSize' = totalSize
                        + SeqSum([n \in 1 .. Len(stale) |-> stale[n].SizeBytes])
                   /\ errs' = errs
    /\ UNCHANGED <<inputVars, fs, repos, i, task, wg, closed, closer, started,
                   tally, out, runVars, fnVars>>

\* the variant that leaves the loop as soon as no result is waiting
RangeEndsOnEmpty == results = <<>>

\* `for result := range results` ends when the channel is closed and drained
RangeEnds == results = <<>> /\ closed

\* the range loop ends
CollectDone ==
    /\ pc = "collect" /\ RangeEnds
    /\ pc' = "report"
    /\ UNCHANGED <<inputVars, fs, fanVars, collectVars, runVars, fnVars>>

\* after the loop: list and scan print and return; run returns when
\* nothing is stale and otherwise enters the removal loop.  The scan
\* goroutines have ended: their locals are dropped.
Report ==
    /\ pc = "report"
    /\ task' = [r \in Repos |-> [IdleTask EXCEPT !.pc = task[r].pc]]
    /\ IF mode = "run" /\ Len(allStale) # 0
       THEN /\ pc' = "decide"
            /\ idx' = 1
            /\ calls' = [n \in 1 .. Len(allStale) |-> 0]
            /\ decided' = [n \in 1 .. Len(allStale) |-> 0]
       ELSE pc' = "done" /\ UNCHANGED <<idx, calls, decided>>
    /\ UNCHANGED <<inputVars, fs, repos, i, wg, results, closed, closer, started, received,
                   collectVars, run, err, recheckOn, issuedOn, statusQuery, processedRepos,
                   pruned, fnVars>>

\* ------------------------------------------- the removal loop of run
\* what fmt.Scanln can put in response: one blank-free token, or nothing
Responses == {"", "y", "Y", "yes", "Yes", "YES", "n", "no", "yy"}

ToLower(s) ==
    CASE s = "Y" -> "y"
      [] s \in {"Yes", "YES"} -> "yes"
      [] OTHER -> s

ShouldRemove(response) == ToLower(response) = "y" \/ ToLower(response) = "yes"

\* the variant that leaves the loop at the first failed removal
LoopNextAbort(k, failed) == IF failed THEN Len(allStale) + 1 ELSE k + 1

\* the loop moves to the next candidate whatever happened to this one
LoopNext(k, failed) == k + 1

Advance(failed) ==
    /\ idx' = LoopNext(idx, failed)
    /\ pc' = IF idx' > Len(allStale) THEN "summary" ELSE "decide"

\* top of the loop body: --force, or the prompt and its answer
Decide ==
    /\ pc = "decide"
    /\ \E response \in Responses :
        LET shouldRemove == IF cleanupForce THEN TRUE ELSE ShouldRemove(response)
        IN  /\ decided' = [decided EXCEPT ![idx] = @ + 1]
            /\ err' = "none" /\ recheckOn' = "none" /\ issuedOn' = "none"
            /\ statusQuery' = NoQuery
            /\ IF shouldRemove
               THEN /\ pc' = "recheck"
                    /\ calls' = [calls EXCEPT ![idx] = @ + 1]
                    /\ UNCHANGED <<idx, run>>
               ELSE /\ run' = [run EXCEPT !.skipped = @ + 1]
                    /\ Advance(FALSE)
                    /\ calls' = calls
    /\ UNCHANGED <<inputVars, fs, fanVars, collectVars, processedRepos, pruned, fnVars>>

\* the variant that takes a status it could not get for a clean one
SafetyCheckFailOpen(st) ==
    IF ~st.err /\ Len(st.status) > 0
    THEN "worktree has uncommitted changes, refusing to remove"
    ELSE "nil"

\* "Double-check git status before removal": the error removeWorktreeSafely
\* returns before it gets to the removal, "nil" when it goes on
SafetyCheck(st) ==
    IF st.err THEN "failed to check status"
    ELSE IF Len(st.status) > 0 THEN "worktree has uncommitted changes, refusing to remove"
    ELSE "nil"

\* removeWorktreeSafely up to the removal: the status re-check
Recheck ==
    /\ pc = "recheck"
    /\ \E s \in Contents(fs[allStale[idx].Path]) :
       \E st \in { GetGitStatus(sProc) : sProc \in StatusProcs(s) } :
        /\ recheckOn' = s
        /\ statusQuery' = [made |-> TRUE, status |-> st.status, err |-> st.err]
        /\ IF SafetyCheck(st) # "nil"
           THEN /\ err' = SafetyCheck(st)
                /\ run' = [run EXCEPT !.skipped = @ + 1]
                /\ Advance(TRUE)
           ELSE /\ pc' = "remove"
                /\ UNCHANGED <<idx, run, err>>
    /\ UNCHANGED <<inputVars, fs, fanVars, collectVars, issuedOn, processedRepos, pruned,
                   calls, decided, fnVars>>

\* runner.RemoveWorktree, the return of removeWorktreeSafely and the
\* counting of its result
Remove ==
    /\ pc = "remove"
    /\ LET wt == allStale[idx]
       IN  \E s \in Contents(fs[wt.Path]) :
           \E proc \in RemoveProcs(s, RemoveUsesForce) :
            /\ issuedOn' = s
            /\ fs' = [fs EXCEPT ![wt.Path] =
                        GitWorktreeRemove(s, proc, RemoveUsesForce) # "gone"]
            /\ IF RemoveWorktree(proc)
               THEN /\ err' = "git worktree remove failed"
                    /\ run' = [run EXCEPT !.skipped = @ + 1]
                    /\ Advance(TRUE)
               ELSE /\ err' = "nil"
                    /\ run' = [run EXCEPT !.removed = @ + 1,
                                          !.freedSpace = @ + wt.SizeBytes]
                    /\ Advance(FALSE)
    /\ UNCHANGED <<inputVars, fanVars, collectVars, recheckOn, statusQuery, processedRepos,
                   pruned, calls, decided, fnVars>>

\* the loop is left (its locals with it) and the tally is printed;
\* pruning follows when something was removed
Summary ==
    /\ pc = "summary"
    /\ IF run.removed > 0 THEN pc' = "prune" /\ idx' = 1
       ELSE pc' = "done" /\ idx' = idx
    /\ err' = "none" /\ recheckOn' = "none" /\ issuedOn' = "none"
    /\ statusQuery' = NoQuery
    /\ UNCHANGED <<inputVars, fs, fanVars, collectVars, run, processedRepos, pruned, calls,
                   decided, fnVars>>

\* the variant that forgets which repositories it has pruned
AlreadyProcessedNever(repoPath) == FALSE

\* processedRepos[wt.RepoPath]
AlreadyProcessed(repoPath) == repoPath \in processedRepos

\* the variant that gives up pruning at the first failed prune
PruneNextAbort(k, warned) == IF warned THEN Len(allStale) + 1 ELSE k + 1

\* a failed prune prints a warning and the loop goes on
PruneNext(k, warned) == k + 1

\* one iteration of the pruning loop over allStale
PruneEach ==
    /\ pc = "prune"
    /\ LET wt == allStale[idx]
       IN  IF ~AlreadyProcessed(wt.RepoPath)
           THEN /\ processedRepos' = processedRepos \cup {wt.RepoPath}
                /\ \E proc \in PruneProcs :
                    LET warned == PruneWorktrees(proc)
                    IN  /\ pruned' = Append(pruned, [repoPath |-> wt.RepoPath,
                                                     warned |-> warned])
                        /\ idx' = PruneNext(idx, warned)
           ELSE /\ UNCHANGED <<processedRepos, pruned>>
                /\ idx' = PruneNext(idx, FALSE)
    /\ pc' = IF idx' > Len(allStale) THEN "done" ELSE "prune"
    /\ UNCHANGED <<inputVars, fs, fanVars, collectVars, run, err, recheckOn, issuedOn,
                   statusQuery, calls, decided, fnVars>>

Next ==
    \/ Discover
    \/ Spawn
    \/ SpawnDone
    \/ \E r \in Repos : TaskScan(r)
    \/ \E r \in Repos : TaskSend(r)
    \/ \E r \in Repos : TaskDone(r)
    \/ CloserClose
    \/ CollectList
    \/ CollectScan
    \/ CollectRun
    \/ CollectDone
    \/ Report
    \/ Decide
    \/ Recheck
    \/ Remove
    \/ Summary
    \/ PruneEach

Spec == Init /\ [][Next]_vars

\* The Go scheduler runs every goroutine that can take a step: a scan
\* goroutine whose scanWorktrees call returns, the closing goroutine, and
\* the main routine up to the end of its collecting loop.  Nothing is
\* assumed about the user answering the prompts of run.
Fairness ==
    /\ \A r \in Repos : WF_vars(TaskScan(r)) /\ WF_vars(TaskSend(r)) /\ WF_vars(TaskDone(r))
    /\ WF_vars(CloserClose)
    /\ WF_vars(Discover \/ Spawn \/ SpawnDone \/ CollectList \/ CollectScan \/ CollectRun
                  \/ CollectDone)

LiveSpec == Spec /\ Fairness

\* ---------------------------------------- the classifier on any record
\* the command's state stays as before the command runs
CmdIdle ==
    /\ mode = "list" /\ cleanupForce = FALSE /\ repoFilter = NoFilter /\ root = "ok"
    /\ fs = [w \in WtIds |-> TRUE]
    /\ CmdInit

Reasons == {"", "Has uncommitted changes", "Error checking status", "Merged to main",
            "Remote branch deleted"}

\* every WorktreeInfo value, whether or not a scan can build it
AnyInfos ==
    { [WorktreeInfo(p.repo, p.repo, p, p.name, "main") EXCEPT
            !.HasChanges = c, !.IsMerged = m, !.IsDeleted = d, !.Reason = why] :
        p \in WtIds, c \in BOOLEAN, m \in BOOLEAN, d \in BOOLEAN, why \in Reasons }

InitClassify ==
    /\ CmdIdle
    /\ arg \in AnyInfos
    /\ ret = [pc |-> "ready"]

\* w.IsStale() and w.StatusString() on the record
Classify ==
    /\ ret.pc = "ready"
    /\ ret' = [pc |-> "done", stale |-> IsStale(arg), status |-> StatusString(arg)]
    /\ UNCHANGED <<inputVars, fs, pc, fanVars, collectVars, runVars, arg>>

NextClassify == Classify

SpecClassify == InitClassify /\ [][NextClassify]_vars

\* ------------------------------- one iteration of the scan, inputs shown
SecondaryWorktrees == { [Path |-> p, Branch |-> p.name] : p \in WtIds }

InitScanOne ==
    /\ CmdIdle
    /\ \E wt \in SecondaryWorktrees, db \in {"main", "master"}, s \in {"clean", "dirty"} :
        arg \in [wt : {wt}, defaultBranch : {db}, dir : {s}, sProc : StatusProcs(s),
                 mProc : MergedProcs(wt.Branch), rProc : RemoteProcs(wt.Branch)]
    /\ ret = [pc |-> "ready"]

ScanOneStep ==
    /\ ret.pc = "ready"
    /\ LET x == scanOne(arg.wt.Path.repo, Base(arg.wt.Path.repo), arg.wt,
                        arg.defaultBranch, arg.sProc, arg.mProc, arg.rProc)
       IN  ret' = [pc |-> "done", info |-> x.info, calls |-> x.calls]
    /\ UNCHANGED <<inputVars, fs, pc, fanVars, collectVars, runVars, arg>>

NextScanOne == ScanOneStep

SpecScanOne == InitScanOne /\ [][NextScanOne]_vars

\* ------------------------------ the acceptance loop on any root listing
\* os.ReadDir returns the entries sorted by name; an entry is a directory
\* or not (a file, or a symbolic link, whose target os.Stat follows), and
\* <entry>/main/.git can be stat'ed or not
RootListings ==
    UNION { [1 .. n -> [name : 1 .. NumRepos + 1, isDir : BOOLEAN, hasMainGit : BOOLEAN]] :
              n \in 0 .. NumRepos + 1 }

SortedListings ==
    { l \in RootListings : \A m, n \in 1 .. Len(l) : m < n => l[m].name < l[n].name }

InitDiscover ==
    /\ CmdIdle
    /\ arg \in SortedListings
    /\ ret = [pc |-> "ready"]

DiscoverStep ==
    /\ ret.pc = "ready"
    /\ ret' = [pc |-> "done", repos |-> AcceptEntries(arg)]
    /\ UNCHANGED <<inputVars, fs, pc, fanVars, collectVars, runVars, arg>>

NextDiscover == DiscoverStep

SpecDiscover == InitDiscover /\ [][NextDiscover]_vars

\* ------------------------------------- the prompt of run, line by line
\* What the user can type at a prompt before Enter, as the blank-separated
\* tokens of the line.
Lines == { <<>>, <<"y">>, <<"Y">>, <<"yes">>, <<"Yes">>, <<"YES">>, <<"n">>, <<"no">>,
           <<"yy">>, <<"yes", "please">>, <<"n", "yyes">>, <<"n", "y">> }

\* a token without its first character
DropRune(token) ==
    CASE token = "yyes" -> "yes"
      [] token = "please" -> "lease"
      [] OTHER -> ""

NoInput == [pending |-> FALSE, line |-> <<>>]

\* fmt.Scanln(&response) on a line: response takes the first token and
\* stays "" on an empty line.  When more follows on the line the scan ends
\* with "expected newline" after reading the first character of the next
\* token, and what is left of the line stays on standard input.
Scanln(line) ==
    [response |-> IF line = <<>> THEN "" ELSE Head(line),
     stdin |-> IF Len(line) <= 1 THEN NoInput
               ELSE [pending |-> TRUE,
                     line |-> IF DropRune(line[2]) = "" THEN <<>>
                              ELSE <<DropRune(line[2])>>]]

\* the loop over NumCandidates(arg) candidates: ret.stdin is what an
\* earlier read left on standard input, ret.last the latest decision,
\* ret.calls the removeWorktreeSafely calls made so far
InitPrompt ==
    /\ CmdIdle
    /\ arg \in [force : BOOLEAN, candidates : 1 .. MaxWt + 1]
    /\ ret = [pc |-> "loop", k |-> 1, stdin |-> NoInput, calls |-> 0,
              last |-> [k |-> 0, asked |-> FALSE, answered |-> FALSE, line |-> <<>>,
                        invoked |-> FALSE]]

\* one iteration for candidate ret.k: with --force no prompt; otherwise
\* the prompt is printed and Scanln reads what is pending, or waits for
\* the user to type a line
PromptStep ==
    /\ ret.pc = "loop"
    /\ IF arg.force
       THEN ret' = [ret EXCEPT !.k = @ + 1, !.calls = @ + 1,
                               !.pc = IF ret.k = arg.candidates THEN "done" ELSE "loop",
                               !.last = [k |-> ret.k, asked |-> FALSE, answered |-> FALSE,
                                         line |-> <<>>, invoked |-> TRUE]]
       ELSE \E typed \in (IF ret.stdin.pending THEN {ret.stdin.line} ELSE Lines) :
               LET scan == Scanln(typed)
                   response == ToLower(scan.response)
               IN  ret' = [pc |-> IF ret.k = arg.candidates THEN "done" ELSE "loop",
                           k |-> ret.k + 1,
                           stdin |-> scan.stdin,
                           calls |-> ret.calls + IF ShouldRemove(response) THEN 1 ELSE 0,
                           last |-> [k |-> ret.k, asked |-> TRUE,
                                     answered |-> ~ret.stdin.pending,
                                     line |-> IF ret.stdin.pending THEN <<>> ELSE typed,
                                     invoked |-> ShouldRemove(response)]]
    /\ UNCHANGED <<inputVars, fs, pc, fanVars, collectVars, runVars, arg>>

NextPrompt == PromptStep

SpecPrompt == InitPrompt /\ [][NextPrompt]_vars

\* ------------------------------------------ cmd/commit.go: pushWithRetry
maxRetries == 4

\* seconds
delays == <<2, 4, 8, 16>>

\* what pushCmd.Run() can return for one `git push -u origin <branch>`:
\* nil, an *exec.ExitError with exit code 1, 128 or another one, or an
\* error that is no *exec.ExitError (the command could not be started)
PushOutcomes == {"ok", "exit1", "exit128", "exit2", "nostart"}

\* exitCode == 128 || exitCode == 1 on an *exec.ExitError
IsNetworkError(outcome) == outcome \in {"exit128", "exit1"}

\* arg[n] is what the n-th push of this call would return
InitPush ==
    /\ CmdIdle
    /\ arg \in [1 .. maxRetries + 1 -> PushOutcomes]
    /\ ret = [pc |-> "loop", attempt |-> 0, pushes |-> 0, slept |-> <<>>, result |-> "none"]

\* one iteration of `for attempt := 0; attempt <= maxRetries; attempt++`
PushAttempt ==
    /\ ret.pc = "loop"
    /\ LET outcome == arg[ret.attempt + 1]
           pushed == [ret EXCEPT !.pushes = @ + 1]
       IN  ret' = IF outcome = "ok"
                    THEN [pushed EXCEPT !.pc = "done", !.result = "nil"]
                  ELSE IF ret.attempt = maxRetries
                    THEN [pushed EXCEPT !.pc = "done", !.result = "push failed after 5 attempts"]
                  ELSE IF IsNetworkError(outcome)
                    THEN [pushed EXCEPT !.slept = Append(@, delays[ret.attempt + 1]),
                                        !.attempt = @ + 1]
                  ELSE [pushed EXCEPT !.pc = "done", !.result = "err"]
    /\ UNCHANGED <<inputVars, fs, pc, fanVars, collectVars, runVars, arg>>

NextPush == PushAttempt

SpecPush == InitPush /\ [][NextPush]_vars

\* ------------------------------------------------ pkg/cache: Cache[T]
\* A cache c is [entries, ttl]: entries maps the keys it holds to
\* Entry{Value, ExpiresAt}.  Times are readings of the monotonic clock.
Keys == 1 .. NumKeys
Values == {"a", "b"}
zero == ""

\* New(ttl)
New(ttl) == [entries |-> <<>>, ttl |-> ttl]

\* the variant of Get that does not look at ExpiresAt
GetIgnoringExpiry(c, key, now) ==
    IF key \notin DOMAIN c.entries THEN <<zero, FALSE>>
    ELSE <<c.entries[key].Value, TRUE>>

\* Cache.Get
Get(c, key, now) ==
    IF key \notin DOMAIN c.entries THEN <<zero, FALSE>>
    ELSE IF now > c.entries[key].ExpiresAt THEN <<zero, FALSE>>
    ELSE <<c.entries[key].Value, TRUE>>

\* c.entries[key] = Entry{...}
Store(c, key, value, expiresAt) ==
    [c EXCEPT !.entries = [k \in DOMAIN c.entries \cup {key} |->
                              IF k = key THEN [Value |-> value, ExpiresAt |-> expiresAt]
                              ELSE c.entries[k]]]

\* Cache.Set
Set(c, key, value, now) == Store(c, key, value, now + c.ttl)

\* Cache.SetWithTTL
SetWithTTL(c, key, value, ttl, now) == Store(c, key, value, now + ttl)

\* Cache.Delete
Delete(c, key) ==
    [c EXCEPT !.entries = [k \in DOMAIN c.entries \ {key} |-> c.entries[k]]]

\* Cache.Clear
Clear(c) == [c EXCEPT !.entries = <<>>]

\* Cache.Cleanup
Cleanup(c, now) ==
    [c EXCEPT !.entries = [k \in { q \in DOMAIN c.entries : ~(now > c.entries[q].ExpiresAt) }
                              |-> c.entries[k]]]

\* Cache.Len
CacheLen(c) == Cardinality(DOMAIN c.entries)

\* ret is [cache, now, last]: last[k] is the latest Set or SetWithTTL for
\* key k that no Delete or Clear came after, if there is one
NoStore == [stored |-> FALSE, value |-> zero, expiresAt |-> 0]

InitCache ==
    /\ CmdIdle
    /\ arg \in 1 .. MaxTTL
    /\ ret = [cache |-> New(arg), now |-> 0, last |-> [k \in Keys |-> NoStore]]

CacheSet ==
    \E key \in Keys, value \in Values :
        ret' = [ret EXCEPT !.cache = Set(@, key, value, ret.now),
                           !.last[key] = [stored |-> TRUE, value |-> value,
                                          expiresAt |-> ret.now + arg]]

CacheSetWithTTL ==
    \E key \in Keys, value \in Values, ttl \in 0 .. MaxTTL :
        ret' = [ret EXCEPT !.cache = SetWithTTL(@, key, value, ttl, ret.now),
                           !.last[key] = [stored |-> TRUE, value |-> value,
                                          expiresAt |-> ret.now + ttl]]

CacheDelete ==
    \E key \in Keys :
        ret' = [ret EXCEPT !.cache = Delete(@, key), !.last[key] = NoStore]

CacheClear ==
    ret' = [ret EXCEPT !.cache = Clear(@), !.last = [k \in Keys |-> NoStore]]

CacheCleanup ==
    ret' = [ret EXCEPT !.cache = Cleanup(@, ret.now)]

\* time passes
CacheTick ==
    /\ ret.now < MaxTime
    /\ ret' = [ret EXCEPT !.now = @ + 1]

NextCache ==
    /\ \/ CacheSet
       \/ CacheSetWithTTL
       \/ CacheDelete
       \/ CacheClear
       \/ CacheCleanup
       \/ CacheTick
    /\ UNCHANGED <<inputVars, fs, pc, fanVars, collectVars, runVars, arg>>

SpecCache == InitCache /\ [][NextCache]_vars

\* --------------------------------------------- repohistory: History
\* h.entries maps a repository name to RepoEntry{LastAccessed, AccessCount}.
\* A time is a clock reading; the entries load() read from the file carry
\* the wall-clock times an earlier process wrote, which the clock of this
\* process need not have reached.
Names == 1 .. MaxRecentRepos + 1
Times == 0 .. MaxTime

RepoEntry(t, n) == [LastAccessed |-> t, AccessCount |-> n]

\* the files an earlier process can have left: none, or one with
\* MaxRecentRepos entries
HistoryFiles ==
    {<<>>} \cup { [n \in 1 .. MaxRecentRepos |-> RepoEntry(f[n], 1)] :
                    f \in [1 .. MaxRecentRepos -> Times] }

\* History.RecordAccess up to the call of save
Record(entries, repoName, now) ==
    [n \in DOMAIN entries \cup {repoName} |->
        IF n = repoName
        THEN IF repoName \in DOMAIN entries
             THEN RepoEntry(now, entries[repoName].AccessCount + 1)
             ELSE RepoEntry(now, 1)
        ELSE entries[n]]

\* History.save: the names that can be kept.  The entries are taken from
\* the map in any order and sorted with LastAccessed.After, most recent
\* first; the first MaxRecentRepos stay.  Entries with equal times keep
\* the order the map gave them.
Kept(entries) ==
    IF Cardinality(DOMAIN entries) <= MaxRecentRepos THEN {DOMAIN entries}
    ELSE { S \in SUBSET DOMAIN entries :
             /\ Cardinality(S) = MaxRecentRepos
             /\ \A a \in S, b \in DOMAIN entries \ S :
                   ~(entries[b].LastAccessed > entries[a].LastAccessed) }

\* ret is [entries, now, calls, name, before, expected]: the map, the
\* clock, the calls made, the name and the map of the latest call before
\* its save, and per name the calls made for it since its entry was
\* created (as loaded, or by a call that did not find it)
InitHistory ==
    /\ CmdIdle
    /\ arg \in HistoryFiles
    /\ \E now \in Times :
        ret = [entries |-> arg, now |-> now, calls |-> 0, name |-> 0, before |-> arg,
               expected |-> [n \in DOMAIN arg |-> arg[n].AccessCount]]

\* h.RecordAccess(repoName), the clock having advanced or not since the
\* call before
RecordAccess ==
    /\ ret.calls < MaxRecentRepos + 2
    /\ \E repoName \in Names, now \in {ret.now, ret.now + 1} \cap Times :
        LET recorded == Record(ret.entries, repoName, now)
            counted == [n \in DOMAIN recorded |->
                          IF n = repoName
                          THEN IF n \in DOMAIN ret.entries THEN ret.expected[n] + 1 ELSE 1
                          ELSE ret.expected[n]]
        IN  \E S \in Kept(recorded) :
                ret' = [entries |-> [n \in S |-> recorded[n]], now |-> now,
                        calls |-> ret.calls + 1, name |-> repoName, before |-> recorded,
                        expected |-> [n \in S |-> counted[n]]]
    /\ UNCHANGED <<inputVars, fs, pc, fanVars, collectVars, runVars, arg>>

NextHistory == RecordAccess

SpecHistory == InitHistory /\ [][NextHistory]_vars

\* ----------------------------------- the runner on any subprocess outcome
\* what the subprocess can have written to stdout, as lines
StdoutLines == {"", "?? file", " M file"}

MaxLines == 3

Outputs == UNION { [1 .. n -> StdoutLines] : n \in 0 .. MaxLines }

\* a subprocess that ran wrote anything before it ended; one that could
\* not be started wrote nothing
AnyProcs ==
    { Proc(k, o) : k \in {"exit0", "exitN", "killed"}, o \in Outputs }
        \cup {Proc("nostart", <<>>)}

InitRun ==
    /\ CmdIdle
    /\ arg \in AnyProcs
    /\ ret = [pc |-> "ready"]

\* runner.Run, runner.RunSimple and runner.GetGitStatus on the outcome
RunStep ==
    /\ ret.pc = "ready"
    /\ ret' = [pc |-> "done", result |-> Run(arg), simple |-> RunSimple(arg),
               status |-> GetGitStatus(arg)]
    /\ UNCHANGED <<inputVars, fs, pc, fanVars, collectVars, runVars, arg>>

NextRun == RunStep

SpecRun == InitRun /\ [][NextRun]_vars

\* ================================================================ claims
Range(seq) == { seq[n] : n \in 1 .. Len(seq) }

\* C1: for every combination of HasChanges, IsMerged and IsDeleted, IsStale
\* is true exactly for the clean records that are merged or deleted (the
\* three rows below); a record with changes is never stale.
C1_IsStaleTruthTable ==
    ret.pc = "done" =>
        /\ ret.stale <=> <<arg.HasChanges, arg.IsMerged, arg.IsDeleted>> \in
                            { <<FALSE, TRUE, FALSE>>, <<FALSE, FALSE, TRUE>>,
                              <<FALSE, TRUE, TRUE>> }
        /\ arg.HasChanges => ~ret.stale

C1_Witness ==
    ret.pc = "done" /\ arg.HasChanges /\ arg.IsMerged /\ arg.IsDeleted /\ ~ret.stale

RefusalError == "worktree has uncommitted changes, refusing to remove"

\* C2: when removeWorktreeSafely is called for a worktree that holds
\* uncommitted changes, it returns the refusal error, does not go on to the
\* removal command, and the worktree stays on disk.
C2_DirtyAtCallIsRefused ==
    [][ (pc = "recheck" /\ recheckOn' = "dirty") =>
            /\ err' = RefusalError
            /\ pc' # "remove"
            /\ fs' = fs ]_vars

\* C3: a worktree that holds uncommitted changes when its removal command
\* is issued stays on disk, with and without --force.
C3_DirtyAtRemovalStays ==
    [][ (pc = "remove" /\ issuedOn' = "dirty") => fs'[allStale[idx].Path] ]_vars

C3_Witness ==
    /\ issuedOn = "dirty" /\ recheckOn = "clean"
    /\ err = "git worktree remove failed"
    /\ \A w \in WtIds : fs[w]

\* C4: when the status query of a scanned worktree returns an error, its
\* record has HasChanges, the reason "Error checking status", neither
\* IsMerged nor IsDeleted, and is not stale.
C4_StatusErrorFailsClosed ==
    (ret.pc = "done" /\ GetGitStatus(arg.sProc).err) =>
        /\ ret.info.HasChanges
        /\ ret.info.Reason = "Error checking status"
        /\ ~ret.info.IsMerged /\ ~ret.info.IsDeleted
        /\ ~IsStale(ret.info)

C4_Witness ==
    /\ ret.pc = "done" /\ arg.sProc.kind = "exitN" /\ arg.dir = "clean"
    /\ arg.mProc.kind = "exit0" /\ arg.mProc.out # <<>>
    /\ ret.info.Reason = "Error checking status"

\* C5: a scanned record with HasChanges has neither IsMerged nor IsDeleted,
\* and neither the merged probe nor the remote probe was called for it.
C5_ChangesShortCircuit ==
    (ret.pc = "done" /\ ret.info.HasChanges) =>
        /\ ~ret.info.IsMerged /\ ~ret.info.IsDeleted
        /\ ret.calls = <<"GetGitStatus">>

C5_Witness ==
    /\ ret.pc = "done" /\ ret.info.HasChanges
    /\ ret.info.Reason = "Has uncommitted changes"
    /\ arg.mProc.kind = "exit0" /\ arg.mProc.out # <<>> /\ arg.mProc.out[1].mark = " "
    /\ arg.rProc.kind = "exit0" /\ arg.rProc.out = <<>>

\* the records of repository r in a sequence of records
OfRepo(seq, r) == SelectSeq(seq, LAMBDA w : w.RepoName = Base(r))

\* the lines list prints for the records of one result
LinesOf(worktrees) ==
    [n \in 1 .. Len(worktrees) |->
        [branchDisplay |-> worktrees[n].Path.name, status |-> StatusString(worktrees[n]),
         reason |-> worktrees[n].Reason]]

\* C6: when the collector has drained the channel, a repository whose
\* enumeration failed has exactly one error line and contributes nothing,
\* and every other scanned repository is reported in full (list: its
\* section with all its lines; scan and run: all its stale records); a
\* command that got past discovery never ends with a result left behind.
C6_ScanErrorIsIsolated ==
    /\ pc = "report" =>
        \A r \in Repos : started[r] = 1 =>
            IF task[r].err
            THEN /\ Len(SelectSeq(errs, LAMBDA n : n = Base(r))) = 1
                 /\ OfRepo(allStale, r) = <<>>
                 /\ \A n \in 1 .. Len(out) : out[n].repoName # Base(r)
            ELSE /\ \A n \in 1 .. Len(errs) : errs[n] # Base(r)
                 /\ mode = "list" =>
                        IF task[r].result = <<>>
                        THEN \A n \in 1 .. Len(out) : out[n].repoName # Base(r)
                        ELSE \E n \in 1 .. Len(out) :
                                /\ out[n] = [repoName |-> Base(r),
                                             lines |-> LinesOf(task[r].result)]
                                /\ \A m \in 1 .. Len(out) :
                                      out[m].repoName = Base(r) => m = n
                 /\ mode \in {"scan", "run"} =>
                        OfRepo(allStale, r) = SelectSeq(task[r].result, IsStale)
    /\ (pc \in {"decide", "recheck", "remove", "summary", "prune", "done"} /\ ~repos.isNil) =>
        \A r \in Repos : received[r] = started[r]

C6_Witness ==
    /\ pc = "report" /\ mode = "run"
    /\ task[1].err /\ started[2] = 1 /\ ~task[2].err
    /\ Len(allStale) = 1 /\ allStale[1].RepoName = 2
    /\ errs = <<1>>

\* position of a repository in the order discoverRepos returned
DiscoveryIndex(repoName) == CHOOSE n \in 1 .. Len(repos.paths) : Base(repos.paths[n]) = repoName

\* C7: the sections list has printed, and the stale records scan and run
\* have collected, follow the order in which discoverRepos returned the
\* repositories.
C7_ReportInDiscoveryOrder ==
    pc = "report" =>
        /\ \A m, n \in 1 .. Len(out) :
              m < n => DiscoveryIndex(out[m].repoName) <= DiscoveryIndex(out[n].repoName)
        /\ \A m, n \in 1 .. Len(allStale) :
              m < n => DiscoveryIndex(allStale[m].RepoName)
                            <= DiscoveryIndex(allStale[n].RepoName)

\* C8: a repository has at most one scan goroutine, and has one exactly
\* when it was discovered and passes the filter; the channel is closed only
\* when every started goroutine has sent; no result is received twice, and
\* once the collector has left its loop every started goroutine's result
\* has been received.
C8_OneResultPerRepository ==
    /\ \A r \in Repos : started[r] <= 1 /\ received[r] <= started[r]
    /\ pc \notin {"start", "spawn"} /\ ~repos.isNil =>
          \A r \in Repos :
              started[r] = IF r \in Range(repos.paths) /\ PassesFilter(Base(r)) THEN 1 ELSE 0
    /\ closed => \A r \in Repos : started[r] = 1 => task[r].pc \in {"sent", "done"}
    /\ pc \in {"report", "decide", "recheck", "remove", "summary", "prune"} =>
          \A r \in Repos : received[r] = started[r]
    /\ \A r \in Repos :
          received[r] + Len(SelectSeq(results, LAMBDA res : res.repoName = Base(r)))
              = IF task[r].pc \in {"sent", "done"} THEN 1 ELSE 0

C8_Witness ==
    /\ pc = "report" /\ repoFilter = NoFilter
    /\ \A r \in Repos : started[r] = 1 /\ received[r] = 1
    /\ closed

\* the records of the results that carry no error
Scanned == UNION { Range(task[r].result) : r \in { q \in Repos : ~task[q].err } }

\* C9: what scan lists, what run will propose and what list counts as
\* cleanable are the scanned records that are clean and merged or deleted:
\* all of them and no other.
C9_SameStaleSet ==
    pc = "report" =>
        LET stale == { w \in Scanned : ~w.HasChanges /\ (w.IsMerged \/ w.IsDeleted) }
        IN  /\ mode \in {"scan", "run"} =>
                Range(allStale) = stale /\ Len(allStale) = Cardinality(stale)
            /\ mode = "list" => tally.staleWorktrees = Cardinality(stale)

C9_Witness ==
    /\ pc = "report" /\ mode = "list"
    /\ tally.totalWorktrees = 3 /\ tally.staleWorktrees = 2
    /\ \E w \in Scanned : w.IsDeleted
    /\ \E w \in Scanned : w.IsMerged
    /\ \E w \in Scanned : w.HasChanges

\* C10: in run every candidate gets one decision and at most one
\* removeWorktreeSafely call, candidates are taken in order whatever
\* happened to the earlier ones, and when the loop is over removed plus
\* skipped is the number of candidates.
C10_EveryCandidateOnce ==
    /\ \A k \in 1 .. Len(calls) : calls[k] <= 1 /\ decided[k] <= 1 /\ calls[k] <= decided[k]
    /\ pc = "decide" =>
          /\ run.removed + run.skipped = idx - 1
          /\ \A k \in 1 .. Len(decided) : decided[k] = IF k < idx THEN 1 ELSE 0
    /\ (mode = "run" /\ pc \in {"summary", "prune", "done"}) =>
          /\ Len(decided) = Len(allStale)
          /\ \A k \in 1 .. Len(decided) : decided[k] = 1
          /\ run.removed + run.skipped = Len(allStale)

C10_Witness ==
    /\ pc = "summary" /\ Len(allStale) = 3
    /\ calls = <<1, 0, 1>>
    /\ run.removed = 1 /\ run.skipped = 2
    /\ err = "nil"
    /\ fs[allStale[1].Path] /\ ~fs[allStale[3].Path]

\* the PruneWorktrees calls made for repository r
PrunesOf(r) == SelectSeq(pruned, LAMBDA p : p.repoPath = r)

\* C11: within one run PruneWorktrees is called at most once for a
\* repository, however many of its worktrees were removed.
C11_PruneOncePerRepository ==
    \A r \in Repos : Len(PrunesOf(r)) <= 1

C11_Witness ==
    /\ pc = "done" /\ run.removed = 2
    /\ \A w \in WtIds : w.repo = 1 => ~fs[w]
    /\ Len(PrunesOf(1)) = 1

\* the repositories in which this run removed a worktree from disk
Touched == { r \in Repos : \E w \in WtIds : w.repo = r /\ ~fs[w] }

\* C12: when run ends, PruneWorktrees has been called for the repositories
\* in which a worktree was removed during this run, and for no other.
C12_PruneExactlyTouched ==
    (mode = "run" /\ pc = "done") => { p.repoPath : p \in Range(pruned) } = Touched

\* the root setting is empty, or the root directory is missing or unreadable
ConfigError == root \in {"unset", "missing", "unreadable"}

\* C13: with an empty root setting or a missing or unreadable root
\* directory the command goes from its start straight to its end: no scan
\* goroutine is started, no git command is run, no removal is attempted
\* and every worktree stays on disk.
C13_ConfigErrorAbortsBeforeScan ==
    ConfigError =>
        /\ pc \in {"start", "done"}
        /\ \A r \in Repos : started[r] = 0 /\ task[r] = IdleTask
        /\ wg = 0 /\ results = <<>> /\ closer = "none"
        /\ allStale = <<>> /\ calls = <<>> /\ pruned = <<>>
        /\ recheckOn = "none" /\ issuedOn = "none"
        /\ \A w \in WtIds : fs[w]

C13_Witness ==
    root = "unreadable" /\ mode = "run" /\ cleanupForce /\ pc = "done" /\ repos.isNil

\* Execute: the sub-commands are cobra Run handlers, which return no error,
\* and no path of theirs calls os.Exit: a command that has returned ends
\* the process with status 0.  "running" until then.
ExitStatus == IF pc = "done" THEN "0" ELSE "running"

\* C14: with an empty root setting or a missing or unreadable root
\* directory the command ends with a non-zero exit status.
C14_ConfigErrorExitsNonZero ==
    (ConfigError /\ pc = "done") => ExitStatus # "0"

\* C15: the paths discoverRepos returns for a readable root are those of
\* the entries that are directories with main/.git, each once and in the
\* order of the directory listing; any other entry is left out.
C15_AcceptsExactlyContainers ==
    ret.pc = "done" =>
        LET paths == ret.repos.paths
        IN  /\ \A n \in 1 .. Len(arg) :
                  (arg[n].isDir /\ arg[n].hasMainGit)
                      <=> \E k \in 1 .. Len(paths) : Base(paths[k]) = arg[n].name
            /\ \A k \in 1 .. Len(paths) : \E n \in 1 .. Len(arg) : arg[n].name = Base(paths[k])
            /\ \A j, k \in 1 .. Len(paths) : j < k => paths[j] < paths[k]

C15_Witness ==
    /\ ret.pc = "done" /\ Len(arg) = 3
    /\ arg[1].isDir /\ arg[1].hasMainGit
    /\ ~arg[2].isDir /\ arg[2].hasMainGit
    /\ arg[3].isDir /\ arg[3].hasMainGit
    /\ ret.repos.paths = <<1, 3>>

\* every record a scan goroutine holds or the collector has kept
AllRecords ==
    UNION { Range(task[r].result) : r \in Repos } \cup Range(allStale)
        \cup UNION { Range(res.worktrees) : res \in Range(results) }

\* C16: no record is ever built for the canonical checkout: none is held
\* by a scan goroutine, sent, collected or printed, and no re-check or
\* removal is made for it, whatever the states of the git commands.
C16_NoRecordForMain ==
    /\ \A w \in AllRecords : w.Path.name # MAIN
    /\ \A n \in 1 .. Len(out) : \A k \in 1 .. Len(out[n].lines) :
           out[n].lines[k].branchDisplay # MAIN
    /\ pc \in {"recheck", "remove"} => allStale[idx].Path.name # MAIN

C16_Witness ==
    /\ pc = "remove" /\ mode = "run"
    /\ Len(allStale) = NumWt(1) + 1
    /\ \A r \in Repos : started[r] = 1 /\ ~task[r].err

\* the line, trimmed and lower-cased, reads "y" or "yes"
SaysYes(line) == Len(line) = 1 /\ ToLower(line[1]) \in {"y", "yes"}

\* C17: without --force removeWorktreeSafely is invoked for a candidate
\* exactly when the user answered its prompt with "y" or "yes" in any
\* letter case; with --force it is invoked for every candidate and no
\* prompt is made.
C17_InvokedOnlyOnYes ==
    ret.last.k > 0 =>
        IF arg.force THEN ret.last.invoked /\ ~ret.last.asked
        ELSE /\ ret.last.asked
             /\ ret.last.invoked <=> (ret.last.answered /\ SaysYes(ret.last.line))

\* C18: a call makes at most 4 pushes in total; the waits between
\* consecutive pushes double each time, one wait per push that is followed
\* by another; the call ends with success at the first push that succeeds
\* and with an error otherwise.
C18_AtMostFourPushes ==
    /\ ret.pushes <= 4
    /\ \A n \in 1 .. Len(ret.slept) - 1 : ret.slept[n + 1] = 2 * ret.slept[n]
    /\ Len(ret.slept) = ret.attempt
    /\ \A n \in 1 .. ret.pushes - 1 : arg[n] # "ok"
    /\ ret.pc = "done" =>
          /\ ret.result = "nil" <=> arg[ret.pushes] = "ok"
          /\ ret.result # "none"

\* C19: in every state the cache can be brought to, Get(k) at the current
\* time returns (v, true) exactly when the latest store for k wrote v, no
\* Delete or Clear came after it and the time is not past its expiry, and
\* returns the zero value and false otherwise.
C19_GetReturnsLiveStore ==
    \A k \in Keys :
        Get(ret.cache, k, ret.now) =
            IF ret.last[k].stored /\ ret.now <= ret.last[k].expiresAt
            THEN <<ret.last[k].value, TRUE>>
            ELSE <<zero, FALSE>>

C19_Witness ==
    /\ ret.now = 3
    /\ ret.last[1].stored /\ ret.last[1].expiresAt = 2 /\ 1 \in DOMAIN ret.cache.entries
    /\ ret.last[2].stored /\ ret.last[2].expiresAt = 3
    /\ Get(ret.cache, 1, ret.now) = <<zero, FALSE>>
    /\ Get(ret.cache, 2, ret.now) = <<"b", TRUE>>
    /\ CacheLen(ret.cache) = 2

\* C20: after any RecordAccess the history holds at most MaxRecentRepos
\* entries; when the call went over the limit, the entry it recorded is
\* kept and no dropped entry was accessed more recently than a kept one;
\* the AccessCount of every entry is the number of calls made for it since
\* the entry was created.
C20_HistoryBounded ==
    ret.calls > 0 =>
        /\ Cardinality(DOMAIN ret.entries) <= MaxRecentRepos
        /\ ret.name \in DOMAIN ret.entries
        /\ \A a \in DOMAIN ret.entries, b \in DOMAIN ret.before \ DOMAIN ret.entries :
              ret.before[a].LastAccessed >= ret.before[b].LastAccessed
        /\ \A n \in DOMAIN ret.entries : ret.entries[n].AccessCount = ret.expected[n]

\* C21: the reason of a scanned record follows the priority changes, then
\* merged, then remote-deleted, then active: one of the two changes texts
\* when HasChanges, else "Merged to <default>" when IsMerged, else "Remote
\* branch deleted" when IsDeleted, else empty; IsMerged and IsDeleted are
\* never both set, and the remote probe is made only for a clean record
\* that is not merged.
C21_ReasonPriority ==
    ret.pc = "done" =>
        LET w == ret.info
        IN  /\ w.Reason =
                  IF w.HasChanges
                    THEN IF GetGitStatus(arg.sProc).err THEN "Error checking status"
                         ELSE "Has uncommitted changes"
                  ELSE IF w.IsMerged
                    THEN IF arg.defaultBranch = "main" THEN "Merged to main"
                         ELSE "Merged to master"
                  ELSE IF w.IsDeleted THEN "Remote branch deleted"
                  ELSE ""
            /\ ~(w.IsMerged /\ w.IsDeleted)
            /\ (\E n \in 1 .. Len(ret.calls) : ret.calls[n] = "RemoteBranchExists")
                  => ~w.HasChanges /\ ~w.IsMerged

C21_Witness ==
    /\ ret.pc = "done" /\ ret.info.IsMerged /\ ~ret.info.HasChanges
    /\ arg.defaultBranch = "master" /\ ret.info.Reason = "Merged to master"
    /\ arg.rProc.kind = "exit0" /\ arg.rProc.out = <<>>

\* the worktrees this run has removed from disk
RemovedFromDisk == { w \in WtIds : ~fs[w] }

RECURSIVE SizeSum(_)
SizeSum(S) ==
    IF S = {} THEN 0
    ELSE LET w == CHOOSE x \in S : TRUE IN SizeOf(w) + SizeSum(S \ {w})

\* C22: in run, removed counts the worktrees actually removed and the
\* freed space is the sum of the sizes of exactly those; a candidate that
\* was refused on re-check or whose removal command failed adds to skipped
\* only, so that when the loop is over skipped is the number of candidates
\* that were not removed.
C22_TalliesMatchRemovals ==
    mode = "run" =>
        /\ run.removed = Cardinality(RemovedFromDisk)
        /\ run.freedSpace = SizeSum(RemovedFromDisk)
        /\ pc \in {"summary", "prune"} =>
              run.skipped = Len(allStale) - Cardinality(RemovedFromDisk)

\* C23: a step of the pruning loop, whether its PruneWorktrees failed or
\* not, leaves the removed, skipped and freed-space tallies and every
\* worktree directory as they were; the loop goes on after a failure, so
\* that when it ends every repository of a candidate has had its prune,
\* and the command ends with exit status 0.
C23_PruneFailureOnlyWarns ==
    [][ pc = "prune" =>
            /\ run' = run
            /\ fs' = fs
            /\ pc' \in {"prune", "done"}
            /\ pc' = "done" =>
                  /\ ExitStatus' = "0"
                  /\ \A n \in 1 .. Len(allStale) :
                        \E k \in 1 .. Len(pruned') :
                            pruned'[k].repoPath = allStale[n].RepoPath ]_vars

C23_Witness ==
    /\ pc = "done" /\ mode = "run" /\ run.removed = 1 /\ run.skipped = 1
    /\ Len(pruned) = 2 /\ pruned[1].warned /\ ~pruned[2].warned
    /\ pruned[1].repoPath # pruned[2].repoPath
    /\ Cardinality(RemovedFromDisk) = 1

\* C24: in run, while a candidate is being decided, re-checked or removed
\* no scan goroutine is still at work (every started one has finished and
\* the channel is closed), and removals go one at a time in candidate
\* order: the call in progress is the only call of the current candidate,
\* every earlier candidate has been decided and no later one has been
\* decided or called.
C24_RemovalsSequentialAfterScans ==
    pc \in {"decide", "recheck", "remove"} =>
        /\ \A r \in Repos : task[r].pc = IF started[r] = 1 THEN "done" ELSE "idle"
        /\ wg = 0 /\ closed /\ results = <<>>
        /\ \A k \in 1 .. Len(calls) :
              /\ k > idx => calls[k] = 0 /\ decided[k] = 0
              /\ k < idx => decided[k] = 1
        /\ pc \in {"recheck", "remove"} => calls[idx] = 1 /\ decided[idx] = 1

C24_Witness ==
    /\ pc = "remove" /\ idx = 2 /\ calls = <<1, 1, 0>>
    /\ \A r \in Repos : started[r] = 1 /\ task[r].pc = "done"
    /\ ~fs[allStale[1].Path]

\* C25: the collector takes no result from the channel, and so prints or
\* aggregates nothing, before every started scan goroutine has produced
\* its result and sent it.
C25_CollectAfterAllTasks ==
    ((\E r \in Repos : received[r] > 0) \/ out # <<>> \/ allStale # <<>> \/ errs # <<>>)
        => \A q \in Repos : started[q] = 1 => task[q].pc \in {"sent", "done"}

\* C26: for every record, whatever its three flags, the tag is "[merged]"
\* or "[deleted]" exactly when the record is stale, "[changes]" exactly
\* when it has changes, and "[active]" in every other case: a tag of list
\* says cleanable exactly for the records list counts as cleanable.
C26_TagAgreesWithStale ==
    ret.pc = "done" =>
        /\ ret.status \in {"[merged]", "[deleted]"} <=> ret.stale
        /\ ret.status = "[changes]" <=> arg.HasChanges
        /\ ret.status = "[active]" <=> (~ret.stale /\ ~arg.HasChanges)
        /\ ret.status \in {"[merged]", "[deleted]", "[changes]", "[active]"}

C26_Witness ==
    /\ ret.pc = "done" /\ arg.HasChanges /\ arg.IsMerged /\ ~arg.IsDeleted
    /\ ret.status = "[changes]" /\ ~ret.stale

\* C27: the step of removeWorktreeSafely that makes its status query goes
\* on to the removal command exactly when that query returned no error
\* and an empty status; when the query returned an error the call returns
\* "failed to check status", issues no removal, leaves the worktree on
\* disk and the candidate is counted as skipped.  A removal command is
\* only ever issued after a query of the same call that returned clean.
C27_RemovalOnlyAfterCleanQuery ==
    [][ /\ pc = "recheck" =>
              /\ statusQuery'.made
              /\ pc' = "remove" <=> (~statusQuery'.err /\ statusQuery'.status = <<>>)
              /\ statusQuery'.err =>
                    /\ err' = "failed to check status"
                    /\ run' = [run EXCEPT !.skipped = @ + 1]
                    /\ fs' = fs
        /\ pc = "remove" =>
              /\ statusQuery.made /\ ~statusQuery.err /\ statusQuery.status = <<>>
              /\ statusQuery' = statusQuery ]_vars

C27_Witness ==
    /\ statusQuery.made /\ statusQuery.err /\ err = "failed to check status"
    /\ recheckOn = "clean" /\ issuedOn = "none"
    /\ run.skipped = 1 /\ run.removed = 0 /\ pc = "decide" /\ idx = 2

\* C28: Run returns an error whenever the command did not complete
\* successfully (it exited non-zero, was killed by the timeout, or could
\* not be started), RunSimple hands that error on, and GetGitStatus never
\* returns an empty status with no error for such a command.
C28_RunReportsEveryFailure ==
    (ret.pc = "done" /\ arg.kind # "exit0") =>
        /\ ret.result.err
        /\ ret.simple.err
        /\ ~(ret.status.status = <<>> /\ ~ret.status.err)

\* What the command has printed about discovery: discoverRepos prints a
\* configuration error before each `return nil`; the caller returns
\* without a word on a nil slice and prints the no-repositories line on
\* a slice that is empty but not nil.
DiscoveryMessage ==
    IF pc = "start" THEN "none"
    ELSE IF repos.isNil THEN (IF ConfigError THEN "configuration error" ELSE "none")
    ELSE IF Len(repos.paths) = 0 THEN "No repositories found in git folder"
    ELSE "none"

\* C29: when the root directory is readable and holds no repository
\* container the command reports "No repositories found in git folder",
\* and when discovery failed it reports a configuration error instead.
C29_EmptyRootIsReported ==
    pc = "done" =>
        /\ root = "empty" => DiscoveryMessage = "No repositories found in git folder"
        /\ ConfigError => DiscoveryMessage = "configuration error"

\* C30: whatever the repositories and the filter, a scan goroutine that
\* has its result never finds the channel full or closed, so its send
\* goes through at once; once the closing goroutine is started the
\* channel is eventually closed; and the collecting loop, once entered,
\* eventually ends, with every started goroutine finished.
C30_FanInTerminates ==
    /\ [](\A r \in Repos :
            task[r].pc = "send" =>
                ~closed /\ Len(results) < Capacity(Len(repos.paths)))
    /\ (closer = "wait") ~> closed
    /\ (pc = "collect") ~>
          (pc = "report" /\ \A r \in Repos : task[r].pc \in {"idle", "done"})

C30_Witness ==
    /\ pc = "report" /\ closed /\ closer = "done" /\ repoFilter = 1
    /\ Len(repos.paths) = NumRepos
    /\ started[1] = 1 /\ task[1].pc = "done" /\ received[1] = 1
    /\ \A r \in Repos \ {1} : started[r] = 0 /\ task[r].pc = "idle"
====
